---- MODULE Spec2Model ----
(***************************************************************************)
(* State-machine model of the App component of movie-app (src/src/App.jsx, *)
(* the component of lines 56-385): the debounced search term, the catalog  *)
(* fetches in flight, the pagination merge, the scroll handler and the     *)
(* trending tracker.                                                       *)
(*                                                                         *)
(* One action is one task of the JavaScript event loop: a DOM event, a     *)
(* timer callback, or the continuation of an async function after an       *)
(* await.  A state update made in a task is taken together with the        *)
(* re-render and the effects that the update triggers.  The two awaits of  *)
(* fetchMovies on the HTTP response (fetch, then response.json) touch no   *)
(* state between them and are taken as one step.                           *)
(***************************************************************************)
EXTENDS Integers, Sequences, FiniteSets, TLC

\* ------------------------------------------------------------------ bounds
MaxFetches    == 3   \* calls of fetchMovies in one run
MaxResults    == 1   \* length of data.results in one response
MaxTotalPages == 2   \* largest page / total_pages a response carries
QuietTicks    == 2   \* clock ticks that make up the 500 ms quiet period

\* ---------------------------------------------------------------- inputs
Undefined == "undefined"       \* a property the payload does not carry
Terms     == {"", "a"}         \* values of the search box
Movies    == { [id |-> 1, poster_path |-> "/p1.jpg"],
               [id |-> 2, poster_path |-> "/p2.jpg"] }
NoMovie   == [id |-> 0, poster_path |-> ""]

VARIABLES
    mounted,              \* the component has been mounted
    searchTerm,           \* useState('')    App.jsx:58
    debouncedSearchTerm,  \* useState('')    App.jsx:57
    movieList,            \* useState([])    App.jsx:59
    errorMessage,         \* useState('')    App.jsx:60
    isLoading,            \* useState(false) App.jsx:61
    trendingMovies,       \* useState([])    App.jsx:62
    page,                 \* useState(1)     App.jsx:63
    hasMore,              \* useState(true)  App.jsx:64
    timer,                \* debounce timeout: ticks left, -1 when none is armed
    sinceEdit,            \* clock: ticks since the last edit of searchTerm (capped)
    fetches,              \* the calls of fetchMovies, in call order
    store,                \* documents of the trending collection, in creation order
    activeResp,           \* page < total_pages of the last response for the active term
    listPages             \* the requests whose results make up movieList, in order

vars == << mounted, searchTerm, debouncedSearchTerm, movieList, errorMessage,
           isLoading, trendingMovies, page, hasMore, timer, sinceEdit,
           fetches, store, activeResp, listPages >>

\* ------------------------------------------------------------- helpers
\* JavaScript truthiness of a string-or-undefined value (query ? .. : .., a || b)
Truthy(s) == s # Undefined /\ s # ""

\* a || b on strings
OrElse(a, b) == IF Truthy(a) THEN a ELSE b

SeqsUpTo(S, n) == UNION { [1..k -> S] : k \in 0..n }

\* ------------------------------------------------------ catalog payloads
GenericError == "Error fetching movies. Please try again later."
DefaultError == "Failed to fetch movies"

\* payloads with the failure flag
FailurePayloads ==
    [ Response : {"False"}, Error : {Undefined, "", "Invalid API key"},
      hasResults : {FALSE}, results : {<< >>}, page : {1}, total_pages : {1} ]

\* payloads of a successful query; results may be missing from the payload
SuccessPayloads ==
    [ Response : {Undefined}, Error : {Undefined},
      hasResults : {TRUE}, results : SeqsUpTo(Movies, MaxResults),
      page : 1..MaxTotalPages, total_pages : 1..MaxTotalPages ]
    \cup
    [ Response : {Undefined}, Error : {Undefined},
      hasResults : {FALSE}, results : {<< >>},
      page : 1..MaxTotalPages, total_pages : 1..MaxTotalPages ]

Payloads == FailurePayloads \cup SuccessPayloads

\* data.results || []
ResultsOrEmpty(data) == IF data.hasResults THEN data.results ELSE << >>

\* --------------------------------------------------------- fetchMovies
\* an endpoint selection that takes the search endpoint whatever the query
EndpointAlwaysSearch(query) == "search"

\* the endpoint fetchMovies builds for a query
Endpoint(query) == IF Truthy(query) THEN "search" ELSE "discover"

\* the frame of a call of fetchMovies.  endpoint is the endpoint its request
\* goes to; pc is the await it is suspended at;
\* outcome is how its catalog request ended; first, doc and docCount are the
\* locals of updateSearchCount; tracked and refreshed count its calls of
\* updateSearchCount and loadTrendingMovies
NewFetch(query, pageNumber) ==
    [ query |-> query, pageNumber |-> pageNumber, endpoint |-> Endpoint(query),
      pc |-> "fetch",
      outcome |-> "pending", first |-> NoMovie, doc |-> 0, docCount |-> 0,
      tracked |-> 0, refreshed |-> 0 ]

InFlight(i) == fetches[i].pc # "done"

\* a frame that has returned: its locals are gone
Returned(frame, outcome) ==
    [ frame EXCEPT !.pc = "done", !.outcome = outcome,
                   !.first = NoMovie, !.doc = 0, !.docCount = 0 ]

\* the synchronous head of fetchMovies, up to the await of fetch()
fetchMovies(query, pageNumber) ==
    /\ isLoading' = TRUE
    /\ errorMessage' = ""
    /\ fetches' = Append(fetches, NewFetch(query, pageNumber))

Init ==
    /\ mounted = FALSE
    /\ searchTerm = ""
    /\ debouncedSearchTerm = ""
    /\ movieList = << >>
    /\ errorMessage = ""
    /\ isLoading = FALSE
    /\ trendingMovies = << >>
    /\ page = 1
    /\ hasMore = TRUE
    /\ timer = -1
    /\ sinceEdit = QuietTicks
    /\ fetches = << >>
    /\ store = << >>
    /\ activeResp = [ seen |-> FALSE, more |-> FALSE ]
    /\ listPages = << >>

\* TermEffect without setPage(1)
TermEffectKeepsPage(term) ==
    /\ page' = page
    /\ hasMore' = TRUE
    /\ fetchMovies(term, 1)

\* a term effect that aborts the requests still pending before it fetches
TermEffectAborts(term) ==
    /\ page' = 1
    /\ hasMore' = TRUE
    /\ isLoading' = TRUE
    /\ errorMessage' = ""
    /\ fetches' = Append([ i \in 1..Len(fetches) |->
                             IF fetches[i].pc = "fetch"
                             THEN Returned(fetches[i], "failed")
                             ELSE fetches[i] ],
                         NewFetch(term, 1))

\* the effect of [debouncedSearchTerm]: reset the pagination and fetch page 1
TermEffect(term) ==
    /\ page' = 1
    /\ hasMore' = TRUE
    /\ fetchMovies(term, 1)

\* a page effect that fetches nothing
PageEffectIdle(newPage, term) ==
    UNCHANGED << isLoading, errorMessage, fetches >>

\* the effect of [page], run after a render in which page changed
PageEffect(newPage, term) ==
    IF newPage > 1
    THEN fetchMovies(term, newPage)
    ELSE UNCHANGED << isLoading, errorMessage, fetches >>

\* first render: useDebounce arms its timer, the page effect sees page = 1 and
\* does nothing, the term effect fetches page 1 of the discover listing
Mount ==
    /\ ~mounted
    /\ mounted' = TRUE
    /\ timer' = QuietTicks
    /\ sinceEdit' = 0
    /\ TermEffect(debouncedSearchTerm)
    /\ UNCHANGED << searchTerm, debouncedSearchTerm, movieList, trendingMovies,
                    store, activeResp, listPages >>

\* ------------------------------------------------------------ debounce
\* useDebounce that leaves a pending timeout running when searchTerm changes
useDebounceKeepsTimer(t) == IF t >= 0 THEN t ELSE QuietTicks

\* useDebounce(fn, 500, [searchTerm]): a change of searchTerm clears the
\* pending timeout and arms a new one of the full period; t is the old timer
useDebounceReset(t) == QuietTicks

\* onChange of the search box: setSearchTerm(v)
EditSearch(v) ==
    /\ mounted
    /\ v # searchTerm
    /\ searchTerm' = v
    /\ timer' = useDebounceReset(timer)
    /\ sinceEdit' = 0
    /\ UNCHANGED << mounted, debouncedSearchTerm, movieList, errorMessage, isLoading,
                    trendingMovies, page, hasMore, fetches, store, activeResp,
                    listPages >>

\* time passes without an edit
Tick ==
    /\ mounted
    /\ timer > 0 \/ sinceEdit < QuietTicks
    /\ timer' = IF timer > 0 THEN timer - 1 ELSE timer
    /\ sinceEdit' = IF sinceEdit < QuietTicks THEN sinceEdit + 1 ELSE sinceEdit
    /\ UNCHANGED << mounted, searchTerm, debouncedSearchTerm, movieList, errorMessage,
                    isLoading, trendingMovies, page, hasMore, fetches, store,
                    activeResp, listPages >>

\* the timeout callback: setDebouncedSearchTerm(searchTerm); when the value
\* changes the component re-renders and the [debouncedSearchTerm] effect runs
\* (setPage(1) then re-runs the [page] effect, whose test page > 1 fails)
DebounceFire ==
    /\ mounted
    /\ timer = 0
    /\ timer' = -1
    /\ debouncedSearchTerm' = searchTerm
    /\ IF searchTerm # debouncedSearchTerm
       THEN /\ Len(fetches) < MaxFetches
            /\ TermEffect(searchTerm)
            /\ activeResp' = [ seen |-> FALSE, more |-> FALSE ]
       ELSE UNCHANGED << page, hasMore, isLoading, errorMessage, fetches, activeResp >>
    /\ UNCHANGED << mounted, searchTerm, movieList, trendingMovies, sinceEdit, store,
                    listPages >>

\* -------------------------------------------------------------- scroll
ScrollThresholdPx == 300

\* distance in px between the bottom of the viewport and the bottom of the
\* document: offsetHeight - (innerHeight + scrollTop)
Gaps == {0, 300, 301}

\* scrollPosition >= scrollThreshold
NearBottom(gap) == gap <= ScrollThresholdPx

\* handleScroll without the isLoading test
ScrollIgnoresLoading(loading, more, gap) == more /\ NearBottom(gap)

\* the guard of handleScroll: may this scroll event advance the page counter
ScrollAdvances(loading, more, gap) == ~loading /\ more /\ NearBottom(gap)

\* a scroll event: handleScroll, then the [page] effect when page changed
Scroll(gap) ==
    /\ mounted
    /\ IF ScrollAdvances(isLoading, hasMore, gap)
       THEN /\ Len(fetches) < MaxFetches
            /\ page' = page + 1
            /\ PageEffect(page + 1, debouncedSearchTerm)
       ELSE UNCHANGED << page, isLoading, errorMessage, fetches >>
    /\ UNCHANGED << mounted, searchTerm, debouncedSearchTerm, movieList, trendingMovies,
                    hasMore, timer, sinceEdit, store, activeResp, listPages >>

\* ------------------------------------------------ fetchMovies, continued
\* a catch block that only logs
CatchWithoutMessage(i, outcome) ==
    /\ errorMessage' = errorMessage
    /\ isLoading' = FALSE
    /\ fetches' = [fetches EXCEPT ![i] = Returned(fetches[i], outcome)]

\* catch (error) { setErrorMessage(...) } finally { setIsLoading(false) }
CatchFinally(i, outcome) ==
    /\ errorMessage' = GenericError
    /\ isLoading' = FALSE
    /\ fetches' = [fetches EXCEPT ![i] = Returned(fetches[i], outcome)]

\* a return that leaves without the cleanup of the loading flag
ReturnWithoutCleanup(i, outcome) ==
    /\ isLoading' = isLoading
    /\ fetches' = [fetches EXCEPT ![i] = Returned(fetches[i], outcome)]

\* finally { setIsLoading(false) } on a path that threw nothing
Finally(i, outcome) ==
    /\ isLoading' = FALSE
    /\ fetches' = [fetches EXCEPT ![i] = Returned(fetches[i], outcome)]

\* a failure handler that steps the page counter back for another try
RequestFailsStepsBack(i, why) ==
    /\ i \in 1..Len(fetches)
    /\ fetches[i].pc = "fetch"
    /\ CatchFinally(i, "failed")
    /\ page' = IF fetches[i].pageNumber > 1 THEN fetches[i].pageNumber - 1 ELSE page
    /\ UNCHANGED << mounted, searchTerm, debouncedSearchTerm, movieList, trendingMovies,
                    hasMore, timer, sinceEdit, store, activeResp, listPages >>

\* a failure handler that issues the request again
RequestFailsAndRetries(i, why) ==
    /\ i \in 1..Len(fetches)
    /\ fetches[i].pc = "fetch"
    /\ Len(fetches) < MaxFetches
    /\ errorMessage' = GenericError
    /\ isLoading' = TRUE
    /\ fetches' = Append([fetches EXCEPT ![i] = Returned(fetches[i], "failed")],
                         NewFetch(fetches[i].query, fetches[i].pageNumber))
    /\ UNCHANGED << mounted, searchTerm, debouncedSearchTerm, movieList, trendingMovies,
                    page, hasMore, timer, sinceEdit, store, activeResp, listPages >>

\* the request fails: fetch() rejects (network error), the response is not ok
\* (throw new Error), or response.json() rejects
RequestFails(i, why) ==
    /\ i \in 1..Len(fetches)
    /\ fetches[i].pc = "fetch"
    /\ CatchFinally(i, "failed")
    /\ UNCHANGED << mounted, searchTerm, debouncedSearchTerm, movieList, trendingMovies,
                    page, hasMore, timer, sinceEdit, store, activeResp, listPages >>

\* setHasMore(data.page < data.total_pages)
HasMoreOf(data) == data.page < data.total_pages

\* a merge that replaces the list whatever the page
MergeAlwaysReplaces(pageNumber, prevMovies, results) == results

\* page 1 replaces the list, a later page is appended to it
MergePage(pageNumber, prevMovies, results) ==
    IF pageNumber = 1 THEN results ELSE prevMovies \o results

\* the tracking condition without the page test
ShouldTrackAnyPage(query, data, pageNumber) ==
    Truthy(query) /\ Len(data.results) > 0

\* query && data.results.length > 0 && pageNumber === 1
ShouldTrack(query, data, pageNumber) ==
    Truthy(query) /\ Len(data.results) > 0 /\ pageNumber = 1

\* a failure-flag branch that leaves the list as it is
FailureFlagKeepsList(i, data) ==
    /\ errorMessage' = OrElse(data.Error, DefaultError)
    /\ movieList' = movieList
    /\ Finally(i, "flag")
    /\ UNCHANGED << hasMore, activeResp >>

\* the failure-flag branch: message, empty list, return (through finally)
FailureFlag(i, data) ==
    /\ errorMessage' = OrElse(data.Error, DefaultError)
    /\ movieList' = << >>
    /\ Finally(i, "flag")
    /\ UNCHANGED << hasMore, activeResp >>

\* the requests whose results are in the list once the response data of the
\* call f is handled: none after the failure flag, else as the merge of line 103
PagesAfter(f, data, pages) ==
    LET request == [ query |-> f.query, pageNumber |-> f.pageNumber ] IN
    IF data.Response = "False" THEN << >>
    ELSE IF f.pageNumber = 1 THEN << request >>
    ELSE Append(pages, request)

\* the response is ok and response.json() resolves with data
JsonResolves(i, data) ==
    /\ i \in 1..Len(fetches)
    /\ fetches[i].pc = "fetch"
    /\ listPages' = PagesAfter(fetches[i], data, listPages)
    /\ LET f == fetches[i] IN
       IF data.Response = "False"
       THEN FailureFlag(i, data)
       ELSE /\ hasMore' = HasMoreOf(data)
            /\ movieList' = MergePage(f.pageNumber, movieList, ResultsOrEmpty(data))
            /\ activeResp' = IF f.query = debouncedSearchTerm
                             THEN [ seen |-> TRUE, more |-> HasMoreOf(data) ]
                             ELSE activeResp
            /\ IF Truthy(f.query) /\ ~data.hasResults
               THEN \* data.results.length throws a TypeError
                    CatchFinally(i, "threw")
               ELSE IF ShouldTrack(f.query, data, f.pageNumber)
               THEN \* updateSearchCount(query, data.results[0]) is called
                    /\ fetches' = [fetches EXCEPT ![i] =
                                     [f EXCEPT !.pc = "lookup", !.outcome = "ok",
                                               !.first = data.results[1],
                                               !.tracked = f.tracked + 1]]
                    /\ UNCHANGED << errorMessage, isLoading >>
               ELSE /\ Finally(i, "ok")
                    /\ UNCHANGED errorMessage
    /\ UNCHANGED << mounted, searchTerm, debouncedSearchTerm, trendingMovies,
                    page, timer, sinceEdit, store >>

\* ----------------------------------------------------- trending tracker
TrendingLimit == 10

\* the poster URL stored with a trending record
PosterUrl(movie) == "https://image.tmdb.org/t/p/w500" \o movie.poster_path

\* the record created for a term that has none
NewRecord(term, movie) ==
    [ searchTerm |-> term, count |-> 1, movie_id |-> movie.id,
      poster_url |-> PosterUrl(movie) ]

\* query by searchTerm = term: the index of the first matching document, 0 if none
FindRecord(docs, term) ==
    IF \E k \in 1..Len(docs) : docs[k].searchTerm = term
    THEN CHOOSE k \in 1..Len(docs) :
            /\ docs[k].searchTerm = term
            /\ \A j \in 1..(k - 1) : docs[j].searchTerm # term
    ELSE 0

\* the orders in which the store may list its documents by count, descending,
\* cut to the first TrendingLimit
TopLists(docs) ==
    LET n == Len(docs)
        m == IF n < TrendingLimit THEN n ELSE TrendingLimit
        orders == { p \in [1..n -> 1..n] :
                      /\ \A a, b \in 1..n : a # b => p[a] # p[b]
                      /\ \A a, b \in 1..n : a < b => docs[p[a]].count >= docs[p[b]].count }
    IN  { [k \in 1..m |-> docs[p[k]]] : p \in orders }

\* updateSearchCount, first await: the lookup of the term's record.  A failure is
\* logged and swallowed, and fetchMovies goes on to loadTrendingMovies.
LookupSettles(i, ok) ==
    /\ i \in 1..Len(fetches)
    /\ fetches[i].pc = "lookup"
    /\ LET f == fetches[i]
           k == FindRecord(store, f.query)
       IN  fetches' = [fetches EXCEPT ![i] =
              IF ok
              THEN [f EXCEPT !.pc = "write", !.doc = k,
                             !.docCount = IF k = 0 THEN 0 ELSE store[k].count]
              ELSE [f EXCEPT !.pc = "trending", !.refreshed = f.refreshed + 1]]
    /\ UNCHANGED << mounted, searchTerm, debouncedSearchTerm, movieList, errorMessage,
                    isLoading, trendingMovies, page, hasMore, timer, sinceEdit, store,
                    activeResp, listPages >>

\* an update that creates a record whatever the lookup found
WriteAlwaysCreates(i, ok) ==
    /\ i \in 1..Len(fetches)
    /\ fetches[i].pc = "write"
    /\ LET f == fetches[i] IN
       /\ store' = IF ~ok THEN store
                   ELSE Append(store, NewRecord(f.query, f.first))
       /\ fetches' = [fetches EXCEPT ![i] =
                        [f EXCEPT !.pc = "trending", !.refreshed = f.refreshed + 1]]
    /\ UNCHANGED << mounted, searchTerm, debouncedSearchTerm, movieList, errorMessage,
                    isLoading, trendingMovies, page, hasMore, timer, sinceEdit,
                    activeResp, listPages >>

\* updateSearchCount, second await: increment the record found, or create one
WriteSettles(i, ok) ==
    /\ i \in 1..Len(fetches)
    /\ fetches[i].pc = "write"
    /\ LET f == fetches[i] IN
       /\ store' = IF ~ok THEN store
                   ELSE IF f.doc > 0
                   THEN [store EXCEPT ![f.doc].count = f.docCount + 1]
                   ELSE Append(store, NewRecord(f.query, f.first))
       /\ fetches' = [fetches EXCEPT ![i] =
                        [f EXCEPT !.pc = "trending", !.refreshed = f.refreshed + 1]]
    /\ UNCHANGED << mounted, searchTerm, debouncedSearchTerm, movieList, errorMessage,
                    isLoading, trendingMovies, page, hasMore, timer, sinceEdit,
                    activeResp, listPages >>

\* loadTrendingMovies without its try/catch: the failure reaches the catch of fetchMovies
loadTrendingMoviesUncaught(ok, movies) ==
    /\ trendingMovies' = IF ok THEN movies ELSE trendingMovies
    /\ errorMessage' = IF ok THEN errorMessage ELSE GenericError

\* loadTrendingMovies: setTrendingMovies(movies), or the failure caught and logged
loadTrendingMovies(ok, movies) ==
    /\ trendingMovies' = IF ok THEN movies ELSE trendingMovies
    /\ UNCHANGED errorMessage

\* await loadTrendingMovies() settles; fetchMovies leaves through finally
TrendingSettles(i, ok) ==
    /\ i \in 1..Len(fetches)
    /\ fetches[i].pc = "trending"
    /\ \E movies \in TopLists(store) : loadTrendingMovies(ok, movies)
    /\ Finally(i, "ok")
    /\ UNCHANGED << mounted, searchTerm, debouncedSearchTerm, movieList,
                    page, hasMore, timer, sinceEdit, store, activeResp, listPages >>

Next ==
    \/ Mount
    \/ \E v \in Terms : EditSearch(v)
    \/ Tick
    \/ DebounceFire
    \/ \E gap \in Gaps : Scroll(gap)
    \/ \E i \in 1..MaxFetches, why \in {"network-error", "http-error", "bad-json"} :
          RequestFails(i, why)
    \/ \E i \in 1..MaxFetches, data \in Payloads : JsonResolves(i, data)
    \/ \E i \in 1..MaxFetches, ok \in BOOLEAN : LookupSettles(i, ok)
    \/ \E i \in 1..MaxFetches, ok \in BOOLEAN : WriteSettles(i, ok)
    \/ \E i \in 1..MaxFetches, ok \in BOOLEAN : TrendingSettles(i, ok)

Spec == Init /\ [][Next]_vars

\* ======================================================================
\* Properties
\* ======================================================================
Frames == 1..Len(fetches)
Failures == {"network-error", "http-error", "bad-json"}

\* the step is one in which the catalog request of call i is answered
Answered(i) == fetches[i].pc = "fetch" /\ fetches'[i].pc # "fetch"

\* C1: a response without the failure flag for page 1 makes movieList exactly
\* that response's results; for a page > 1 it makes movieList the list as it
\* was just before, followed by the new results in order.
C1_ReplaceOrAppend ==
    [][ \A i \in Frames :
          Answered(i) =>
             \A data \in SuccessPayloads :
                JsonResolves(i, data) =>
                   movieList' = IF fetches[i].pageNumber = 1
                                THEN data.results
                                ELSE movieList \o data.results ]_vars

\* a later page has been appended to a non-empty list
C1_Witness ==
    \E i \in Frames :
        /\ fetches[i].pageNumber > 1
        /\ fetches[i].pc = "done"
        /\ fetches[i].outcome = "ok"
        /\ Len(movieList) >= 2
        /\ movieList[1] # movieList[2]

\* C2: once a response has been received for the active debounced term,
\* hasMore is true iff page < total_pages held in the most recent response
\* for that term.
C2_HasMoreOfActiveTerm ==
    activeResp.seen => (hasMore <=> activeResp.more)

\* C3: every change of the debounced term resets page to 1, clears the error
\* message and issues the page-1 request for the new term, in one step.
C3_TermChangeResets ==
    [][ debouncedSearchTerm' # debouncedSearchTerm =>
          /\ page' = 1
          /\ errorMessage' = ""
          /\ Len(fetches') = Len(fetches) + 1
          /\ fetches'[Len(fetches')].query = debouncedSearchTerm'
          /\ fetches'[Len(fetches')].pageNumber = 1
          /\ fetches'[Len(fetches')].pc = "fetch" ]_vars

\* the term changed after a scroll-triggered fetch of a page > 1 had failed:
\* the page counter and the error of the previous term are gone
C3_Witness ==
    /\ Len(fetches) >= 3
    /\ LET last == Len(fetches) IN
       /\ fetches[last].pc = "fetch"
       /\ fetches[last].pageNumber = 1
       /\ fetches[last].query = debouncedSearchTerm
       /\ fetches[last - 1].pageNumber > 1
       /\ fetches[last - 1].outcome = "failed"
       /\ fetches[last - 1].query # debouncedSearchTerm
    /\ page = 1
    /\ errorMessage = ""

\* C4: the debounced term changes only when a full quiet period has passed
\* since the last edit, and then to the current value of the search box,
\* leaving no emission pending; an edit never changes it and re-arms the timer
\* for a full period.
C4_DebounceOnlyFinalValue ==
    [][ /\ debouncedSearchTerm' # debouncedSearchTerm =>
              /\ sinceEdit = QuietTicks
              /\ searchTerm' = searchTerm
              /\ debouncedSearchTerm' = searchTerm
              /\ timer' = -1
        /\ searchTerm' # searchTerm =>
              /\ debouncedSearchTerm' = debouncedSearchTerm
              /\ timer' = QuietTicks ]_vars

\* the term typed has been propagated after the quiet period
C4_Witness ==
    /\ searchTerm = "a"
    /\ debouncedSearchTerm = "a"
    /\ timer = -1
    /\ sinceEdit = QuietTicks
    /\ \E i \in Frames : fetches[i].query = "a"

\* the calls a frame has made of updateSearchCount and loadTrendingMovies, by
\* the await it stands at
C5_Counts ==
    \A i \in Frames :
        /\ fetches[i].tracked <= 1
        /\ fetches[i].refreshed <= fetches[i].tracked
        /\ fetches[i].pc = "fetch" => fetches[i].tracked = 0
        /\ fetches[i].pc \in {"lookup", "write"} =>
              fetches[i].tracked = 1 /\ fetches[i].refreshed = 0
        /\ fetches[i].pc = "trending" =>
              fetches[i].tracked = 1 /\ fetches[i].refreshed = 1
        /\ fetches[i].pc = "done" => fetches[i].refreshed = fetches[i].tracked

\* C5: a response without the failure flag calls updateSearchCount (with the
\* query and results[0]) exactly when the fetch is for page 1, the query is
\* non-empty and there is a result; such a fetch makes exactly one update
\* followed by exactly one refresh of the trending list, any other none.
C5_TrackingOncePerFreshSearch ==
    /\ []C5_Counts
    /\ [][ \A i \in Frames :
             Answered(i) =>
             \A data \in SuccessPayloads :
             JsonResolves(i, data) =>
                IF /\ fetches[i].pageNumber = 1
                   /\ fetches[i].query # ""
                   /\ Len(data.results) > 0
                THEN /\ fetches'[i].pc = "lookup"
                     /\ fetches'[i].tracked = 1
                     /\ fetches'[i].first = data.results[1]
                     /\ fetches'[i].query = fetches[i].query
                ELSE /\ fetches'[i].pc = "done"
                     /\ fetches'[i].tracked = 0
                     /\ fetches'[i].refreshed = 0 ]_vars

\* a fresh search has made its update and its refresh, and a fetch of a later
\* page has made neither
C5_Witness ==
    /\ \E i \in Frames :
          /\ fetches[i].pc = "done"
          /\ fetches[i].pageNumber = 1
          /\ fetches[i].query = "a"
          /\ fetches[i].tracked = 1
          /\ fetches[i].refreshed = 1
    /\ \E j \in Frames :
          /\ fetches[j].pc = "done"
          /\ fetches[j].pageNumber > 1
          /\ fetches[j].outcome = "ok"
          /\ fetches[j].tracked = 0
    /\ Len(store) = 1

\* C6: the page counter is advanced, and a fetch for a page > 1 is issued,
\* only by a step that starts with isLoading false and hasMore true, and then
\* by exactly one; a scroll event that is not near the bottom, or arrives with
\* isLoading true or hasMore false, changes neither the counter nor the fetches.
C6_ScrollGuard ==
    [][ /\ (page' # page /\ page' # 1) =>
              page' = page + 1 /\ ~isLoading /\ hasMore
        /\ (Len(fetches') > Len(fetches) /\ fetches'[Len(fetches')].pageNumber > 1) =>
              /\ ~isLoading /\ hasMore
              /\ page' = page + 1
              /\ fetches'[Len(fetches')].pageNumber = page'
        /\ \A gap \in Gaps :
              Scroll(gap) =>
                 IF ~isLoading /\ hasMore /\ gap <= 300
                 THEN page' = page + 1
                 ELSE page' = page /\ fetches' = fetches ]_vars

\* a scroll has advanced the counter and the fetch for that page is in flight
C6_Witness ==
    /\ page > 1
    /\ Len(fetches) >= 2
    /\ fetches[Len(fetches)].pageNumber = page
    /\ fetches[Len(fetches)].pc = "fetch"
    /\ isLoading

\* C7: a payload with Response = "False" sets errorMessage to its Error text,
\* or to the default when it has none, empties movieList, and makes no merge,
\* no change of hasMore and no trending update.
C7_FailureFlag ==
    [][ \A i \in Frames :
          Answered(i) =>
          \A data \in FailurePayloads :
          JsonResolves(i, data) =>
             /\ errorMessage' = IF data.Error \in {Undefined, ""}
                                THEN "Failed to fetch movies"
                                ELSE data.Error
             /\ movieList' = << >>
             /\ hasMore' = hasMore
             /\ store' = store
             /\ trendingMovies' = trendingMovies
             /\ fetches'[i].pc = "done"
             /\ fetches'[i].tracked = 0
             /\ fetches'[i].refreshed = 0 ]_vars

\* a flagged payload has been handled and its message is shown
C7_Witness ==
    /\ \E i \in Frames : fetches[i].outcome = "flag" /\ fetches[i].query = "a"
    /\ errorMessage = "Invalid API key"
    /\ movieList = << >>
    /\ ~hasMore

\* C8: a failure of the trending store, in the record update or in the list
\* retrieval, leaves errorMessage, movieList and hasMore as they are and lets
\* the fetch go on to its end, where the loading flag is cleared.
C8_TrendingFailureSwallowed ==
    [][ \A i \in Frames :
          (LookupSettles(i, FALSE) \/ WriteSettles(i, FALSE) \/ TrendingSettles(i, FALSE)) =>
             /\ errorMessage' = errorMessage
             /\ movieList' = movieList
             /\ hasMore' = hasMore
             /\ page' = page
             /\ fetches'[i].pc \in {"trending", "done"}
             /\ fetches[i].pc = "trending" => (fetches'[i].pc = "done" /\ ~isLoading') ]_vars

\* a tracked search has ended although its record update failed (no record
\* exists), with the results shown, no error and the loading flag clear
C8_Witness ==
    /\ \E i \in Frames :
          /\ fetches[i].pc = "done"
          /\ fetches[i].tracked = 1
          /\ fetches[i].refreshed = 1
    /\ \A i \in Frames : fetches[i].pc = "done"
    /\ store = << >>
    /\ trendingMovies = << >>
    /\ movieList # << >>
    /\ errorMessage = ""
    /\ ~isLoading

\* C9 as stated: a transport failure shows the generic message, leaves
\* movieList unchanged for a page > 1 and empties it for page 1.
C9_ListClearedOnFreshSearchFailure ==
    [][ \A i \in Frames, why \in Failures :
          (Answered(i) /\ RequestFails(i, why)) =>
             /\ errorMessage' = "Error fetching movies. Please try again later."
             /\ movieList' = IF fetches[i].pageNumber > 1 THEN movieList ELSE << >> ]_vars

\* C9 amended: a transport failure shows the generic message and leaves
\* movieList unchanged, for page 1 as for a page > 1.
C9_ListKeptOnFailure ==
    [][ \A i \in Frames, why \in Failures :
          (Answered(i) /\ RequestFails(i, why)) =>
             /\ errorMessage' = "Error fetching movies. Please try again later."
             /\ movieList' = movieList
             /\ hasMore' = hasMore
             /\ page' = page ]_vars

\* the page-1 fetch of a new term has failed and the list of the previous
\* term is still there, behind the generic message
C9_Witness ==
    /\ Len(fetches) = 2
    /\ fetches[1].outcome = "ok" /\ fetches[1].pc = "done"
    /\ fetches[2].outcome = "failed" /\ fetches[2].pageNumber = 1
    /\ fetches[2].query = "a"
    /\ movieList # << >>
    /\ errorMessage = GenericError

\* with no call of fetchMovies in flight the loading flag is clear
C10_NoneInFlight == (\A i \in Frames : fetches[i].pc = "done") => ~isLoading

\* C10: every way out of fetchMovies clears the loading flag, and whenever no
\* fetch is in flight isLoading is false.
C10_LoadingCleared ==
    /\ []C10_NoneInFlight
    /\ [][ \A i \in Frames :
             (fetches[i].pc # "done" /\ fetches'[i].pc = "done") => ~isLoading' ]_vars

\* fetches have ended by the early return, by a failed request and by an
\* exception in the handling of the results, none is left, the flag is clear
C10_Witness ==
    /\ \A i \in Frames : fetches[i].pc = "done"
    /\ \E i \in Frames : fetches[i].outcome = "flag"
    /\ \E i \in Frames : fetches[i].outcome = "failed"
    /\ \E i \in Frames : fetches[i].outcome = "threw"
    /\ ~isLoading

\* ------------------------------------------------------------------ C11
RECURSIVE RefreshedUpTo(_)
RefreshedUpTo(n) ==
    IF n = 0 THEN 0 ELSE fetches[n].refreshed + RefreshedUpTo(n - 1)

\* the calls of loadTrendingMovies made so far: the component calls it from
\* fetchMovies only
TrendingLoads == RefreshedUpTo(Len(fetches))

\* C11: the top list is retrieved on the initial load and after every successful
\* update of a trending record, and at no other time: a step starts a retrieval
\* exactly when it is the first render or the successful write of an update.
C11_TrendingRetrievals ==
    [][ (TrendingLoads' > TrendingLoads)
           <=> \/ ~mounted /\ mounted'
               \/ \E i \in Frames : fetches[i].pc = "write" /\ WriteSettles(i, TRUE) ]_vars

\* ------------------------------------------------- the page, once loaded
\* the trending collection outlives the page: what earlier visits left in it
InitialStores ==
    { << >> } \cup
    { << [NewRecord("a", movie) EXCEPT !.count = 3] >> : movie \in Movies }

\* the page after its first fetch has returned a listing and the first debounce
\* timeout has passed, before any input; the returned call has left no frame
InitLoaded ==
    /\ mounted = TRUE
    /\ searchTerm = ""
    /\ debouncedSearchTerm = ""
    /\ \E data \in { d \in SuccessPayloads : d.hasResults } :
          /\ movieList = data.results
          /\ hasMore = HasMoreOf(data)
          /\ activeResp = [ seen |-> TRUE, more |-> HasMoreOf(data) ]
    /\ errorMessage = ""
    /\ isLoading = FALSE
    /\ trendingMovies = << >>
    /\ page = 1
    /\ timer = -1
    /\ sinceEdit = QuietTicks
    /\ fetches = << >>
    /\ store \in InitialStores
    /\ listPages = << [ query |-> "", pageNumber |-> 1 ] >>

NextLoaded ==
    \/ \E v \in Terms : EditSearch(v)
    \/ Tick
    \/ DebounceFire
    \/ \E gap \in Gaps : Scroll(gap)
    \/ \E i \in 1..MaxFetches, why \in {"network-error", "http-error", "bad-json"} :
          RequestFails(i, why)
    \/ \E i \in 1..MaxFetches, data \in Payloads : JsonResolves(i, data)
    \/ \E i \in 1..MaxFetches, ok \in BOOLEAN : LookupSettles(i, ok)
    \/ \E i \in 1..MaxFetches, ok \in BOOLEAN : WriteSettles(i, ok)
    \/ \E i \in 1..MaxFetches, ok \in BOOLEAN : TrendingSettles(i, ok)

SpecLoaded == InitLoaded /\ [][NextLoaded]_vars

\* ------------------------------------------------------------------ C12
\* C12: the store never holds two records with the same search term, however
\* the lookups and writes of overlapping page-1 fetches interleave.
C12_OneRecordPerTerm ==
    \A j, k \in 1..Len(store) :
       j # k => store[j].searchTerm # store[k].searchTerm

\* ------------------------------------------------------------------ C13
\* the record the update creates for a term and the movie passed with it
C13_Created(term, movie) ==
    [ searchTerm |-> term, count |-> 1, movie_id |-> movie.id,
      poster_url |-> PosterUrl(movie) ]

\* no write has touched the term's record between the lookup and the write of
\* the update run by call i
C13_LookupCurrent(i) ==
    /\ FindRecord(store, fetches[i].query) = fetches[i].doc
    /\ fetches[i].doc > 0 => store[fetches[i].doc].count = fetches[i].docCount

C14_PageFetchesInFlight == { i \in Frames : fetches[i].pageNumber > 1 /\ InFlight(i) }

\* C14: the loading flag keeps the page requests of the scroll handler apart:
\* never are two fetches for pages > 1 in flight together, and the page counter
\* only moves up one page at a time, each time with the fetch of that page.
C14_NoOverlappingPageFetches ==
    /\ [](Cardinality(C14_PageFetchesInFlight) <= 1)
    /\ [][ page' > page =>
             /\ page' = page + 1
             /\ Len(fetches') = Len(fetches) + 1
             /\ fetches'[Len(fetches')].pageNumber = page' ]_vars

\* ------------------------------------------------------------------ C15
\* C15: a request in flight is never cancelled or discarded when a newer search
\* supersedes it: a change of the debounced term leaves every pending call as
\* it is, a pending call only ends by the handling of its own response, and the
\* page-1 response of a term that is no longer the debounced one still replaces
\* the list with its results.
C15_StaleResponseApplied ==
    /\ [][ debouncedSearchTerm' # debouncedSearchTerm =>
              \A i \in Frames : fetches'[i] = fetches[i] ]_vars
    /\ [][ \A i \in Frames :
              Answered(i) =>
                 /\ \/ \E why \in Failures : RequestFails(i, why)
                    \/ \E data \in Payloads : JsonResolves(i, data)
                 /\ \A data \in SuccessPayloads :
                       ( /\ JsonResolves(i, data)
                         /\ fetches[i].pageNumber = 1
                         /\ fetches[i].query # debouncedSearchTerm )
                       => /\ movieList' = ResultsOrEmpty(data)
                          /\ listPages' = << [ query |-> fetches[i].query,
                                               pageNumber |-> 1 ] >> ]_vars

\* the fetch for "a" was issued after the one for "", both have succeeded, and
\* the list holds a result of page 1 of "" while the debounced term is "a"
C15_Witness ==
    /\ debouncedSearchTerm = "a"
    /\ movieList # << >>
    /\ listPages = << [ query |-> "", pageNumber |-> 1 ] >>
    /\ \E i, j \in Frames :
          /\ i < j
          /\ fetches[i].query = "" /\ fetches[i].pageNumber = 1
          /\ fetches[i].outcome = "ok" /\ fetches[i].pc = "done"
          /\ fetches[j].query = "a" /\ fetches[j].pageNumber = 1
          /\ fetches[j].outcome = "ok" /\ fetches[j].pc = "done"

\* ------------------------------------------------------------------ C16
\* the calls of fetchMovies a step starts
C16_Started == SubSeq(fetches', Len(fetches) + 1, Len(fetches'))

\* C16: a change of page to n > 1 starts exactly one fetch, for page n of the
\* debounced term; a change of page to 1 starts none from the page effect, so
\* that a change of the debounced term, whether it resets page or finds it at
\* 1, starts exactly one fetch, for page 1 of the new term; nothing else starts
\* a fetch after the first render.
C16_OneFetchPerPageChange ==
    [][ /\ \A i \in Frames : fetches'[i].query = fetches[i].query
                             /\ fetches'[i].pageNumber = fetches[i].pageNumber
        /\ (page' # page /\ page' > 1) =>
              /\ Len(C16_Started) = 1
              /\ C16_Started[1].pageNumber = page'
              /\ C16_Started[1].query = debouncedSearchTerm'
              /\ debouncedSearchTerm' = debouncedSearchTerm
        /\ (page' # page /\ page' = 1) =>
              debouncedSearchTerm' # debouncedSearchTerm
        /\ debouncedSearchTerm' # debouncedSearchTerm =>
              /\ page' = 1
              /\ Len(C16_Started) = 1
              /\ C16_Started[1].pageNumber = 1
              /\ C16_Started[1].query = debouncedSearchTerm'
        /\ (mounted /\ page' = page /\ debouncedSearchTerm' = debouncedSearchTerm) =>
              Len(C16_Started) = 0 ]_vars

\* page went to 2 by a scroll and back to 1 by a change of the term: three
\* fetches in all, one for the first render, one for page 2, one for the new term
C16_Witness ==
    /\ Len(fetches) = 3
    /\ fetches[2].pageNumber = 2 /\ fetches[2].query = ""
    /\ fetches[3].pageNumber = 1 /\ fetches[3].query = "a"
    /\ page = 1
    /\ debouncedSearchTerm = "a"

\* ------------------------------------------------------------------ C17
\* C17: nothing retries a failed catalog fetch: the step in which a request
\* fails, by transport, status, failure flag or exception, starts no call and
\* arms no timer, and a call of fetchMovies is only ever started by the first
\* render, by a change of the debounced term or by a scroll event that passes
\* the guard of handleScroll.
C17_NoRetry ==
    [][ /\ \A i \in Frames :
             ( /\ fetches[i].outcome = "pending"
               /\ fetches'[i].outcome \in {"failed", "flag", "threw"} )
             => /\ Len(fetches') = Len(fetches)
                /\ timer' = timer
                /\ page' = page
                /\ debouncedSearchTerm' = debouncedSearchTerm
        /\ Len(fetches') > Len(fetches) =>
              \/ ~mounted /\ mounted'
              \/ debouncedSearchTerm' # debouncedSearchTerm
              \/ \E gap \in Gaps : /\ ScrollAdvances(isLoading, hasMore, gap)
                                   /\ Scroll(gap) ]_vars

\* every call has returned, the last one failed, and nothing was started after
\* it although the debounce timer has run out
C17_Witness ==
    /\ Len(fetches) = 2
    /\ \A i \in Frames : fetches[i].pc = "done"
    /\ fetches[2].outcome = "failed"
    /\ timer = -1
    /\ sinceEdit = QuietTicks
    /\ errorMessage = GenericError

\* ------------------------------------------------------------------ C18
\* C18: isLoading is true whenever a call of fetchMovies is in flight, its
\* awaited trending update included: the return of one call never clears the
\* flag while another call is outstanding.
C18_LoadingWhileInFlight ==
    (\E i \in Frames : InFlight(i)) => isLoading

\* ------------------------------------------------------------------ C19
\* no call in flight and no debounce timeout pending
C19_Quiescent ==
    /\ mounted
    /\ timer = -1
    /\ \A i \in Frames : fetches[i].pc = "done"

\* C19: in a quiescent state that only successful fetches led to, movieList is
\* made of the results of pages 1..page of the debounced term, in page order,
\* each page once.
C19_ListIsPagesOfTerm ==
    ( /\ C19_Quiescent
      /\ \A i \in Frames : fetches[i].outcome = "ok" )
    => listPages = [ n \in 1..page |->
                       [ query |-> debouncedSearchTerm, pageNumber |-> n ] ]

\* ------------------------------------------------------------------ C20
\* C20: a request for a page n > 1 that fails (network error, HTTP status)
\* leaves page, movieList and hasMore as they are and clears the loading flag;
\* the next scroll that passes the guard requests the page after the counter,
\* n + 1: page never steps back without a change of the term, a returned call
\* is never answered again, and the list only grows by the page of a call whose
\* response is handled, so the results of page n are not added.
C20_FailedPageIsSkipped ==
    /\ [][ \A i \in Frames :
              ( /\ Answered(i)
                /\ fetches[i].pageNumber > 1
                /\ \E why \in Failures : RequestFails(i, why) )
              => /\ page' = page
                 /\ movieList' = movieList
                 /\ hasMore' = hasMore
                 /\ listPages' = listPages
                 /\ ~isLoading'
                 /\ Len(fetches') = Len(fetches) ]_vars
    /\ [][ \A gap \in Gaps :
              (ScrollAdvances(isLoading, hasMore, gap) /\ Scroll(gap))
              => /\ page' = page + 1
                 /\ fetches'[Len(fetches')].pageNumber = page + 1
                 /\ fetches'[Len(fetches')].query = debouncedSearchTerm ]_vars
    /\ [][ /\ page' < page => debouncedSearchTerm' # debouncedSearchTerm
           /\ \A i \in Frames : fetches[i].pc = "done" => fetches'[i] = fetches[i]
           /\ Len(listPages') > Len(listPages) =>
                 \E i \in Frames :
                    /\ Answered(i)
                    /\ fetches'[i].outcome \in {"ok", "threw"}
                    /\ listPages' = Append(listPages,
                                           [ query |-> fetches[i].query,
                                             pageNumber |-> fetches[i].pageNumber ]) ]_vars

\* the request for page 2 failed, the next scroll requested page 3, and the
\* list went from page 1 to page 3
C20_Witness ==
    /\ Len(fetches) = 3
    /\ fetches[2].pageNumber = 2 /\ fetches[2].outcome = "failed"
    /\ fetches[3].pageNumber = 3 /\ fetches[3].outcome = "ok" /\ fetches[3].pc = "done"
    /\ fetches[3].query = fetches[2].query
    /\ page = 3
    /\ listPages = << [ query |-> "", pageNumber |-> 1 ],
                      [ query |-> "", pageNumber |-> 3 ] >>

\* ------------------------------------------------------------------ C21
\* what holds of the calls made so far: each goes to the search endpoint exactly
\* when its query is non-empty, a call with an empty query runs no trending
\* update, and the first call is the one of the initial load, for page 1 of
\* the discovery listing
C21_Calls ==
    /\ \A i \in Frames :
          /\ fetches[i].endpoint \in {"search", "discover"}
          /\ fetches[i].endpoint = "search" <=> fetches[i].query # ""
          /\ fetches[i].query = "" =>
                /\ fetches[i].tracked = 0
                /\ fetches[i].refreshed = 0
                /\ fetches[i].pc \in {"fetch", "done"}
    /\ mounted =>
          /\ Len(fetches) >= 1
          /\ fetches[1].query = ""
          /\ fetches[1].pageNumber = 1
          /\ fetches[1].endpoint = "discover"

\* C21: the initial load issues exactly one catalog fetch, to the discovery
\* endpoint (empty query) for page 1, and with no trending update; until the
\* user types or scrolls no step starts another call, the first debounce
\* timeout included.  A call uses the search endpoint iff its query is non-empty.
C21_InitialLoad ==
    /\ []C21_Calls
    /\ [][ (~mounted /\ mounted') =>
              /\ Len(fetches) = 0
              /\ Len(fetches') = 1
              /\ store' = store ]_vars
    /\ [][ ( /\ mounted
             /\ searchTerm = debouncedSearchTerm
             /\ ~ \E gap \in Gaps : ScrollAdvances(isLoading, hasMore, gap) /\ Scroll(gap) )
           => Len(fetches') = Len(fetches) ]_vars

\* the call of the initial load returned a listing from the discovery endpoint
\* with no trending update, the first debounce timeout fired without a call,
\* and the search for "a" that followed went to the search endpoint
C21_Witness ==
    /\ Len(fetches) = 2
    /\ fetches[1].endpoint = "discover" /\ fetches[1].pageNumber = 1
    /\ fetches[1].outcome = "ok" /\ fetches[1].pc = "done" /\ fetches[1].tracked = 0
    /\ fetches[2].endpoint = "search" /\ fetches[2].query = "a"
    /\ listPages = << [ query |-> "", pageNumber |-> 1 ] >>
    /\ store = << >>

====
